---- MODULE Spec2Model ----
(***************************************************************************)
(* Arc planning and arc execution of TinyG (firmware/tinyg/plan_arc.c).   *)
(*                                                                         *)
(* The C code computes in single precision floats.  The model computes in  *)
(* fixed point integers:                                                   *)
(*   lengths  in units of 0.1 mm             (1 mm   == 10)                *)
(*   lengths given in inches mode in units of 0.01 inch (1 inch == 100)    *)
(*   angles   in milliradians                (M_PI   == 3142)              *)
(*   sin/cos  scaled by TRIG_ONE             (1.0    == 1000)              *)
(*   times    in milliseconds                (1 min  == 60000)             *)
(* A float that is "not a number" is the distinguished value NaN, an       *)
(* infinite one is INF / -INF.                                             *)
(***************************************************************************)
EXTENDS Integers, Sequences, FiniteSets, TLC

(* ----------------------------------------------------------------------- *)
(* Axes, enumerations and status codes                                     *)
(* ----------------------------------------------------------------------- *)
AXIS_X == 0
AXIS_Y == 1
AXIS_Z == 2
AXIS_A == 3
AXIS_B == 4
AXIS_C == 5
AXES == AXIS_X .. AXIS_C

MOVE_STATE_OFF == "MOVE_STATE_OFF"
MOVE_STATE_RUN == "MOVE_STATE_RUN"

CANON_PLANE_XY == "CANON_PLANE_XY"
CANON_PLANE_XZ == "CANON_PLANE_XZ"
CANON_PLANE_YZ == "CANON_PLANE_YZ"

MOTION_MODE_CANCEL == "MOTION_MODE_CANCEL_MOTION_MODE"
MOTION_MODE_CW_ARC == "MOTION_MODE_CW_ARC"
MOTION_MODE_CCW_ARC == "MOTION_MODE_CCW_ARC"

STAT_OK == "STAT_OK"
STAT_EAGAIN == "STAT_EAGAIN"
STAT_NOOP == "STAT_NOOP"
STAT_GCODE_FEEDRATE_ERROR == "STAT_GCODE_FEEDRATE_ERROR"
STAT_ARC_SPECIFICATION_ERROR == "STAT_ARC_SPECIFICATION_ERROR"
STAT_FLOATING_POINT_ERROR == "STAT_FLOATING_POINT_ERROR"
STAT_MINIMUM_LENGTH_MOVE_ERROR == "STAT_MINIMUM_LENGTH_MOVE_ERROR"
STAT_SOFT_LIMIT_EXCEEDED == "STAT_SOFT_LIMIT_EXCEEDED"

(* ----------------------------------------------------------------------- *)
(* Fixed point arithmetic standing for the float arithmetic of the code    *)
(* ----------------------------------------------------------------------- *)
NaN == 999999999
INF == 999999998
TRIG_ONE == 1000
M_PI == 3142
TWO_PI == 2 * M_PI
HALF_PI == 1571
MSEC_PER_MINUTE == 60000
USEC_PER_MSEC == 1000

isnan(a) == a = NaN
fabs(a) == IF a < 0 THEN -a ELSE a
square(a) == a * a
(* the macros of util.h: a comparison with a NaN is false and selects b *)
min(a, b) == IF ~isnan(a) /\ ~isnan(b) /\ a < b THEN a ELSE b
max(a, b) == IF ~isnan(a) /\ ~isnan(b) /\ a > b THEN a ELSE b
min3(a, b, c) == min(min(a, b), c)

(* Bind(e, F) is F(e), with e evaluated once however often F uses it *)
Bind(e, F(_)) == CHOOSE v \in {F(x) : x \in {e}} : TRUE

(* fp_ZERO(a) is fabs(a) < EPSILON; EPSILON lies below the resolution of   *)
(* the fixed point representation.                                         *)
fp_ZERO(a) == a = 0
fp_NOT_ZERO(a) == a # 0

RECURSIVE isqrt(_)
isqrt(n) ==
  IF n < 2 THEN n
  ELSE Bind(2 * isqrt(n \div 4),
            LAMBDA s : IF (s + 1) * (s + 1) <= n THEN s + 1 ELSE s)

(* sqrt() of libm: not a number for a negative argument *)
sqrt(a) == IF isnan(a) \/ a < 0 THEN NaN ELSE isqrt(a)

hypot(a, b) == IF isnan(a) \/ isnan(b) THEN NaN ELSE isqrt(a * a + b * b)

isinf(a) == a = INF \/ a = -INF

(* float comparisons: every comparison with a NaN is false *)
fgt(a, b) == ~isnan(a) /\ ~isnan(b) /\ a > b
flt(a, b) == ~isnan(a) /\ ~isnan(b) /\ a < b

(* float negation, difference, product and quotient with the IEEE results *)
(* for NaN operands, 0 * inf, x / 0 and 0 / 0.  idiv rounds toward zero.   *)
idiv(a, b) == IF a >= 0 THEN a \div b ELSE -((-a) \div b)
fneg(a) == IF isnan(a) THEN NaN ELSE -a
fsub(a, b) ==
  IF isnan(a) \/ isnan(b) THEN NaN
  ELSE IF isinf(a) /\ isinf(b) THEN (IF a = b THEN NaN ELSE a)
  ELSE IF isinf(a) THEN a
  ELSE IF isinf(b) THEN -b
  ELSE a - b
fadd(a, b) == fsub(a, fneg(b))
(* a * b where b is scaled by TRIG_ONE *)
fmul(a, b) ==
  IF isnan(a) \/ isnan(b) THEN NaN
  ELSE IF isinf(a) \/ isinf(b)
       THEN (IF a = 0 \/ b = 0 THEN NaN
             ELSE IF (a > 0) = (b > 0) THEN INF ELSE -INF)
  ELSE idiv(a * b, TRIG_ONE)
(* a / b, the quotient scaled by TRIG_ONE *)
fdiv(a, b) ==
  IF isnan(a) \/ isnan(b) THEN NaN
  ELSE IF b = 0 THEN (IF a = 0 THEN NaN ELSE IF a > 0 THEN INF ELSE -INF)
  ELSE idiv(a * TRIG_ONE, b)
fhalf(a) == IF isnan(a) \/ isinf(a) THEN a ELSE idiv(a, 2)

(* atan(p/q) for p >= 0, q > 0, in milliradians *)
RECURSIVE atan_pos(_, _)
atan_pos(p, q) ==
  IF p <= q
  THEN LET r == (p * TRIG_ONE) \div q
       IN  (785 * r + (273 * r * (TRIG_ONE - r)) \div TRIG_ONE) \div TRIG_ONE
  ELSE HALF_PI - atan_pos(q, p)

(* atan(x / fabs(y)) as line 405 evaluates it: x/0 is +-infinity whose     *)
(* arc tangent is +-pi/2, 0/0 is not a number                              *)
atan_div(x, y) ==
  IF isnan(x) \/ isnan(y) THEN NaN
  ELSE IF y = 0 THEN (IF x = 0 THEN NaN ELSE IF x > 0 THEN HALF_PI ELSE -HALF_PI)
  ELSE IF x >= 0 THEN atan_pos(x, fabs(y)) ELSE -atan_pos(-x, fabs(y))

(* sin() on [0, pi] scaled by TRIG_ONE (Bhaskara's rational approximation) *)
sin_half(x) ==
  LET p == x * (M_PI - x)
  IN  (((4 * p) \div 10) * TRIG_ONE) \div ((5 * M_PI * M_PI - 4 * p) \div 40)

sin(t) ==
  LET m == t % TWO_PI
  IN  IF m <= M_PI THEN sin_half(m) ELSE -sin_half(m - M_PI)

cos(t) == sin(t + HALF_PI)

(* ----------------------------------------------------------------------- *)
(* Machine configuration (the cm singleton) and planner constants          *)
(* ----------------------------------------------------------------------- *)
MILLIMETERS == "MILLIMETERS"
INCHES == "INCHES"
CYCLE_OFF == "CYCLE_OFF"
CYCLE_MACHINING == "CYCLE_MACHINING"

(* cm.arc_segment_len: 7 mm, cm.chordal_tolerance: 0.4 mm *)
cm_arc_segment_len == 70
cm_chordal_tolerance == 4
MIN_ARC_SEGMENT_USEC == 10000
PLANNER_BUFFER_HEADROOM == 2

(* cm.a[axis].feedrate_max, in length units per minute *)
cm_feedrate_max(axis) == IF axis = AXIS_Z THEN 8000 ELSE 12000

(* cm.a[axis].travel_min / travel_max, the soft limits *)
cm_travel_min(axis) == IF axis <= AXIS_Z THEN 0 ELSE -10000
cm_travel_max(axis) ==
  IF axis = AXIS_Z THEN 50 ELSE IF axis <= AXIS_Y THEN 300 ELSE 10000

(* _to_millimeters(a): (gm.units_mode == INCHES) ? a * MM_PER_INCH : a;    *)
(* 0.01 inch is 0.254 mm, that is 2.54 units of 0.1 mm                     *)
to_millimeters(g, a) == IF g.units_mode = INCHES THEN idiv(a * 254, 100) ELSE a

(* ----------------------------------------------------------------------- *)
(* Bounds of the model                                                     *)
(* ----------------------------------------------------------------------- *)
(* calls of cm_arc_feed in one run *)
MaxArcFeeds == 2
(* largest value mp_get_planner_buffers_available() reports *)
MaxBuffersAvailable == 2

(* ----------------------------------------------------------------------- *)
(* State                                                                   *)
(* ----------------------------------------------------------------------- *)
VARIABLES
  gm,           \* GCodeState_t gm: the live G-code model state
  gmx,          \* the extended model state: position, inverse_feed_rate
  cycle_state,  \* cm.cycle_state, set by cm_cycle_start()
  arc,          \* arc_t arc: the arc planner singleton
  ret,          \* the call that ran last and the status it returned
  aline,        \* mp_aline(): calls since the arc was armed, last argument, last status
  feeds,        \* calls of cm_arc_feed so far
  armed         \* history: the arc as cm_arc_feed armed it last, and the call that did

vars == <<gm, gmx, cycle_state, arc, ret, aline, feeds, armed>>

ZeroVector == [a \in AXES |-> 0]

(* the machine setups in which arc commands are received: the values the   *)
(* G-code layer has given feed rate, feed rate mode, plane and units       *)
MachineSetups ==
  { [feed_rate |-> 6000, inverse_feed_rate_mode |-> FALSE,
     select_plane |-> p, units_mode |-> MILLIMETERS] :
       p \in {CANON_PLANE_XY, CANON_PLANE_XZ, CANON_PLANE_YZ} }
  \cup
  { [feed_rate |-> 0, inverse_feed_rate_mode |-> m,
     select_plane |-> CANON_PLANE_XY, units_mode |-> MILLIMETERS] : m \in BOOLEAN }
  \cup
  { [feed_rate |-> 6000, inverse_feed_rate_mode |-> FALSE,
     select_plane |-> CANON_PLANE_XY, units_mode |-> INCHES] }

InitGm(s) ==
  [ target |-> ZeroVector,
    motion_mode |-> MOTION_MODE_CANCEL,
    select_plane |-> s.select_plane,
    feed_rate |-> s.feed_rate,
    inverse_feed_rate_mode |-> s.inverse_feed_rate_mode,
    units_mode |-> s.units_mode,
    move_time |-> 0 ]

(* arc_t arc is a zero initialised global; cm_arc_init() sets the magic    *)
(* numbers only                                                            *)
InitArc(g) ==
  [ run_state |-> MOVE_STATE_OFF,
    plane_axis_0 |-> 0, plane_axis_1 |-> 0, plane_axis_2 |-> 0,
    position |-> ZeroVector,
    offset |-> [n \in 0 .. 2 |-> 0],
    radius |-> 0,
    arc_radius |-> 0,
    theta |-> 0,
    angular_travel |-> 0,
    linear_travel |-> 0,
    length |-> 0,
    time |-> 0,
    segments |-> 0,
    segment_count |-> 0,
    segment_theta |-> 0,
    segment_linear_travel |-> 0,
    center_0 |-> 0,
    center_1 |-> 0,
    gm |-> [g EXCEPT !.select_plane = CANON_PLANE_XY, !.feed_rate = 0,
                     !.inverse_feed_rate_mode = FALSE, !.units_mode = MILLIMETERS] ]

Init ==
  /\ \E s \in MachineSetups : gm = InitGm(s)
  /\ gmx = [position |-> ZeroVector, inverse_feed_rate |-> 20]
  /\ cycle_state = CYCLE_OFF
  /\ arc = InitArc(gm)
  /\ ret = [op |-> "cm_arc_init", status |-> STAT_OK]
  /\ aline = [count |-> 0, gm |-> arc.gm, status |-> STAT_OK]
  /\ feeds = 0
  /\ armed = [feeds |-> 0, arc |-> arc]

(* ----------------------------------------------------------------------- *)
(* plan_arc.c: the local functions                                         *)
(* ----------------------------------------------------------------------- *)
Result(st, a) == [stat |-> st, arc |-> a]

(* angular_travel * radius: milliradians times length, in length units *)
arc_mul(t, r) == idiv(t * r, TRIG_ONE)

(* _get_theta(x, y): the angle of deviance from the positive y axis *)
get_theta(x, y) ==
  LET theta == atan_div(x, y)
  IN  IF fgt(y, 0) THEN theta
      ELSE IF fgt(theta, 0) THEN fsub(M_PI, theta)
      ELSE fsub(-M_PI, theta)

(* _get_arc_time(linear_travel, angular_travel, radius), in milliseconds *)
get_arc_time(a, g, gx, linear_travel, angular_travel, radius) ==
  LET planar_travel == fabs(arc_mul(angular_travel, radius))
      t0 == IF g.inverse_feed_rate_mode
            THEN gx.inverse_feed_rate
            ELSE (isqrt(square(planar_travel) + square(linear_travel)) * MSEC_PER_MINUTE)
                   \div g.feed_rate
      tmp1 == (planar_travel * MSEC_PER_MINUTE) \div cm_feedrate_max(a.plane_axis_0)
      t1 == IF tmp1 > t0 THEN tmp1 ELSE t0
      tmp2 == (planar_travel * MSEC_PER_MINUTE) \div cm_feedrate_max(a.plane_axis_1)
      t2 == IF tmp2 > t1 THEN tmp2 ELSE t1
      tmp3 == (fabs(linear_travel) * MSEC_PER_MINUTE) \div cm_feedrate_max(a.plane_axis_2)
  IN  IF tmp3 > t2 THEN tmp3 ELSE t2

(* _compute_arc_offsets_from_radius(): reads the live gm and gmx, and      *)
(* arc.arc_radius, a field no function of plan_arc.c assigns               *)
compute_arc_offsets_from_radius(a, g, gx) ==
  LET x == g.target[a.plane_axis_0] - gx.position[a.plane_axis_0]
      y == g.target[a.plane_axis_1] - gx.position[a.plane_axis_1]
      radicand == 4 * square(a.arc_radius) - (square(x) - square(y))
      offsets(h0) ==
        LET h1 == IF g.motion_mode = MOTION_MODE_CCW_ARC THEN fneg(h0) ELSE h0
            h_x2_div_d == IF a.arc_radius < 0 THEN fneg(h1) ELSE h1
            o0 == [a.offset EXCEPT ![a.plane_axis_0] = fhalf(fsub(x, fmul(y, h_x2_div_d)))]
            o1 == [o0 EXCEPT ![a.plane_axis_1] = fhalf(fadd(y, fmul(x, h_x2_div_d)))]
            o2 == [o1 EXCEPT ![a.plane_axis_2] = 0]
        IN  IF isnan(h0) THEN Result(STAT_FLOATING_POINT_ERROR, a)
            ELSE Result(STAT_OK, [a EXCEPT !.offset = o2])
  IN  Bind(sqrt(radicand), LAMBDA root :
      Bind(hypot(x, y), LAMBDA d :
      Bind(fneg(fdiv(root, d)), offsets)))

(* a / b of two floats that are not negative, rounded down *)
floor_div(a, b) ==
  IF isnan(a) \/ isnan(b) THEN NaN
  ELSE IF b = 0 THEN (IF a = 0 THEN NaN ELSE INF)
  ELSE a \div b

(* line 241: arc.segments = max(arc.segments, 1) *)
arc_segments_at_least_one(segments) == max(segments, 1)

(* a counter that counts the segments from zero *)
arc_segment_count_from_zero(segments) == segments - 1

(* line 243: arc.segment_count = (int32_t)arc.segments *)
arc_segment_count(segments) == segments

(* the travel shared out over one segment too many *)
travel_per_segment_off_by_one(travel, segments) == idiv(travel, segments + 1)

(* lines 244-245: the angular and the linear travel of one segment *)
travel_per_segment(travel, segments) == idiv(travel, segments)

(* lines 233-249 of _compute_arc(): segment count and per segment values.  *)
(* floor() of the least quotient is the least of the quotients rounded     *)
(* down.                                                                   *)
compute_arc_segments(a, time) ==
  LET segments_required_for_chordal_accuracy ==
        Bind(sqrt(4 * cm_chordal_tolerance * (2 * a.radius - cm_chordal_tolerance)),
             LAMBDA root : floor_div(a.length, root))
      segments_required_for_minimum_distance == a.length \div cm_arc_segment_len
      segments_required_for_minimum_time == (time * USEC_PER_MSEC) \div MIN_ARC_SEGMENT_USEC
      segments == arc_segments_at_least_one(
                    min3(segments_required_for_chordal_accuracy,
                         segments_required_for_minimum_distance,
                         segments_required_for_minimum_time))
  IN  [a EXCEPT
         !.time = time,
         !.segments = segments,
         !.gm.move_time = time \div segments,
         !.segment_count = arc_segment_count(segments),
         !.segment_theta = travel_per_segment(a.angular_travel, segments),
         !.segment_linear_travel = travel_per_segment(a.linear_travel, segments),
         !.center_0 = a.position[a.plane_axis_0] - arc_mul(sin(a.theta), a.radius),
         !.center_1 = a.position[a.plane_axis_1] - arc_mul(cos(a.theta), a.radius),
         !.gm.target[a.plane_axis_2] = a.position[a.plane_axis_2]]

(* the length held against the chordal tolerance *)
arc_too_short_for_tolerance(a) == a.length < cm_chordal_tolerance

(* line 229: the arc is too short to draw *)
arc_too_short(a) == a.length < cm_arc_segment_len

(* a counterclockwise arc taken as the clockwise travel negated *)
arc_angular_travel_ccw_negated(travel0, motion_mode) ==
  IF motion_mode = MOTION_MODE_CCW_ARC THEN 0 - travel0
  ELSE IF fp_ZERO(travel0) THEN TWO_PI ELSE travel0

(* a full circle that is always drawn clockwise *)
arc_angular_travel_full_circle_unsigned(travel0, motion_mode) ==
  IF fp_ZERO(travel0)
  THEN TWO_PI
  ELSE (IF motion_mode = MOTION_MODE_CCW_ARC THEN travel0 - TWO_PI ELSE travel0)

(* lines 209-220: angular travel from the clockwise difference of the two  *)
(* angles; zero is read as a full circle                                   *)
arc_angular_travel(travel0, motion_mode) ==
  IF fp_ZERO(travel0)
  THEN (IF motion_mode = MOTION_MODE_CCW_ARC THEN travel0 - TWO_PI ELSE TWO_PI)
  ELSE (IF motion_mode = MOTION_MODE_CCW_ARC THEN travel0 - TWO_PI ELSE travel0)

(* lines 204-229 of _compute_arc(): angular travel, radius, helix travel   *)
(* and length, then the minimum length test                                *)
compute_arc_travel(a, g, gx, theta_end0) ==
  LET theta_end == IF theta_end0 < a.theta THEN theta_end0 + TWO_PI ELSE theta_end0
      travel0 == theta_end - a.theta
      angular_travel == arc_angular_travel(travel0, g.motion_mode)
      linear_travel == a.gm.target[a.plane_axis_2] - a.position[a.plane_axis_2]
      too_short_or_segments(a1) ==
        IF arc_too_short(a1)
        THEN Result(STAT_MINIMUM_LENGTH_MOVE_ERROR, a1)
        ELSE Bind(get_arc_time(a1, g, gx, a1.linear_travel, a1.angular_travel, a1.radius),
                  LAMBDA time : Result(STAT_OK, compute_arc_segments(a1, time)))
  IN  Bind(hypot(a.offset[a.plane_axis_0], a.offset[a.plane_axis_1]), LAMBDA radius :
      Bind(hypot(arc_mul(angular_travel, radius), fabs(linear_travel)), LAMBDA length :
      Bind([a EXCEPT !.angular_travel = angular_travel, !.radius = radius,
                     !.linear_travel = linear_travel, !.length = length],
           too_short_or_segments)))

(* _compute_arc(): a is the arc singleton as cm_arc_feed() has populated   *)
(* it, g and gx the live model state                                       *)
compute_arc(a, g, gx) ==
  LET with_theta(a0) ==
        [a0 EXCEPT !.theta = get_theta(fneg(a0.offset[a.plane_axis_0]),
                                       fneg(a0.offset[a.plane_axis_1]))]
      theta_end_of(a1) == get_theta(
        fsub(fsub(a1.gm.target[a.plane_axis_0], a1.offset[a.plane_axis_0]),
             a1.position[a.plane_axis_0]),
        fsub(fsub(a1.gm.target[a.plane_axis_1], a1.offset[a.plane_axis_1]),
             a1.position[a.plane_axis_1]))
      from_theta(a1) ==
        IF isnan(a1.theta) THEN Result(STAT_ARC_SPECIFICATION_ERROR, a1)
        ELSE Bind(theta_end_of(a1), LAMBDA theta_end :
               IF isnan(theta_end) THEN Result(STAT_ARC_SPECIFICATION_ERROR, a1)
               ELSE compute_arc_travel(a1, g, gx, theta_end))
      from_offsets(r) ==
        IF r.stat # STAT_OK THEN r ELSE Bind(with_theta(r.arc), from_theta)
  IN  Bind(IF fp_NOT_ZERO(a.radius)
           THEN compute_arc_offsets_from_radius(a, g, gx)
           ELSE Result(STAT_OK, a),
           from_offsets)

(* cm_test_soft_limits(target) of the canonical machine *)
cm_test_soft_limits(target) ==
  IF \E axis \in AXES : target[axis] < cm_travel_min(axis) \/ target[axis] > cm_travel_max(axis)
  THEN STAT_SOFT_LIMIT_EXCEEDED
  ELSE STAT_OK

(* _test_arc_soft_limits() *)
test_arc_soft_limits(a) == cm_test_soft_limits(a.gm.target)

(* cm_set_model_target(target, flags) of the canonical machine: the axes   *)
(* whose flag is set take the command's value, in millimeters              *)
cm_set_model_target(g, target, flags) ==
  [g EXCEPT !.target = [axis \in AXES |->
     IF fp_NOT_ZERO(flags[axis]) THEN to_millimeters(g, target[axis]) ELSE g.target[axis]]]

(* the G18 case with the linear axis left at Z *)
set_arc_plane_xz_linear_z(a, g) ==
  IF g.select_plane = CANON_PLANE_XY
  THEN [a EXCEPT !.plane_axis_0 = AXIS_X, !.plane_axis_1 = AXIS_Y, !.plane_axis_2 = AXIS_Z]
  ELSE IF g.select_plane = CANON_PLANE_XZ
  THEN [a EXCEPT !.plane_axis_0 = AXIS_X, !.plane_axis_1 = AXIS_Z, !.plane_axis_2 = AXIS_Z]
  ELSE IF g.select_plane = CANON_PLANE_YZ
  THEN [a EXCEPT !.plane_axis_0 = AXIS_Y, !.plane_axis_1 = AXIS_Z, !.plane_axis_2 = AXIS_X]
  ELSE a

(* lines 107-121 of cm_arc_feed(): the arc plane of the G17/G18/G19 setting *)
set_arc_plane(a, g) ==
  IF g.select_plane = CANON_PLANE_XY
  THEN [a EXCEPT !.plane_axis_0 = AXIS_X, !.plane_axis_1 = AXIS_Y, !.plane_axis_2 = AXIS_Z]
  ELSE IF g.select_plane = CANON_PLANE_XZ
  THEN [a EXCEPT !.plane_axis_0 = AXIS_X, !.plane_axis_1 = AXIS_Z, !.plane_axis_2 = AXIS_Y]
  ELSE IF g.select_plane = CANON_PLANE_YZ
  THEN [a EXCEPT !.plane_axis_0 = AXIS_Y, !.plane_axis_1 = AXIS_Z, !.plane_axis_2 = AXIS_X]
  ELSE a

(* ----------------------------------------------------------------------- *)
(* plan_arc.c: the entry points                                            *)
(* ----------------------------------------------------------------------- *)
Returned(op, st) == [op |-> op, status |-> st]

(* the test of lines 85-87: no offset, no radius and no axis word *)
no_arc_movement(flags, i, j, k, radius) ==
  /\ fp_ZERO(i) /\ fp_ZERO(j) /\ fp_ZERO(k) /\ fp_ZERO(radius)
  /\ fp_ZERO(flags[AXIS_X] + flags[AXIS_Y] + flags[AXIS_Z]
             + flags[AXIS_A] + flags[AXIS_B] + flags[AXIS_C])

(* lines 93-94: the model state cm_arc_feed() writes before any arc check *)
arc_feed_model_state(g, target, flags, motion_mode) ==
  [cm_set_model_target(g, target, flags) EXCEPT !.motion_mode = motion_mode]

(* lines 96-121: the arc singleton as populated for _compute_arc() *)
arc_feed_populate(a, g, gx, i, j, k, radius) ==
  set_arc_plane(
    [a EXCEPT !.gm = g,
              !.position = gx.position,
              !.radius = to_millimeters(g, radius),
              !.offset = [n \in 0 .. 2 |->
                 to_millimeters(g, IF n = 0 THEN i ELSE IF n = 1 THEN j ELSE k)]],
    g)

(* Faulty variants of the early returns: the two traps in the other       *)
(* order, and the no-movement trap left out.                               *)
arc_feed_trap_reordered(g, flags, i, j, k, radius) ==
  IF no_arc_movement(flags, i, j, k, radius)
  THEN STAT_OK
  ELSE IF (g.inverse_feed_rate_mode = FALSE) /\ fp_ZERO(g.feed_rate)
  THEN STAT_GCODE_FEEDRATE_ERROR
  ELSE "PROCEED"
arc_feed_trap_no_movement_missing(g, flags, i, j, k, radius) ==
  IF (g.inverse_feed_rate_mode = FALSE) /\ fp_ZERO(g.feed_rate)
  THEN STAT_GCODE_FEEDRATE_ERROR
  ELSE "PROCEED"

(* lines 78-90 of cm_arc_feed(): the status of an early return, or       *)
(* PROCEED when the arc is to be computed                                  *)
PROCEED == "PROCEED"
arc_feed_trap(g, flags, i, j, k, radius) ==
  IF (g.inverse_feed_rate_mode = FALSE) /\ fp_ZERO(g.feed_rate)
  THEN STAT_GCODE_FEEDRATE_ERROR
  ELSE IF no_arc_movement(flags, i, j, k, radius)
  THEN STAT_OK
  ELSE PROCEED

(* cm_arc_feed(target, flags, i, j, k, radius, motion_mode) *)
cm_arc_feed(target, flags, i, j, k, radius, motion_mode) ==
  /\ feeds' = feeds + 1
  /\ IF arc_feed_trap(gm, flags, i, j, k, radius) # PROCEED
     THEN /\ ret' = Returned("cm_arc_feed", arc_feed_trap(gm, flags, i, j, k, radius))
          /\ UNCHANGED <<gm, gmx, cycle_state, arc, aline, armed>>
     ELSE \E gm1 \in {arc_feed_model_state(gm, target, flags, motion_mode)} :
          \E populated \in {arc_feed_populate(arc, gm1, gmx, i, j, k, radius)} :
          \E r \in {compute_arc(populated, gm1, gmx)} :
          \E soft \in {test_arc_soft_limits(r.arc)} :
            /\ gm' = gm1
            /\ IF r.stat # STAT_OK
               THEN /\ arc' = r.arc
                    /\ ret' = Returned("cm_arc_feed", r.stat)
                    /\ UNCHANGED <<gmx, cycle_state, aline, armed>>
               ELSE IF soft # STAT_OK
               THEN /\ arc' = r.arc
                    /\ ret' = Returned("cm_arc_feed", soft)
                    /\ UNCHANGED <<gmx, cycle_state, aline, armed>>
               ELSE /\ cycle_state' = CYCLE_MACHINING
                    /\ arc' = [r.arc EXCEPT !.run_state = MOVE_STATE_RUN]
                    /\ gmx' = [gmx EXCEPT !.position = gm1.target]
                    /\ ret' = Returned("cm_arc_feed", STAT_OK)
                    /\ aline' = [aline EXCEPT !.count = 0]
                    /\ armed' = [feeds |-> feeds', arc |-> arc']

(* sin() and cos() of a float that may be not a number *)
fsin(t) == IF isnan(t) THEN NaN ELSE sin(t)
fcos(t) == IF isnan(t) THEN NaN ELSE cos(t)

(* a step of theta against the direction of the arc *)
arc_theta_step_backwards(a) == fsub(a.theta, a.segment_theta)

(* line 146: arc.theta += arc.segment_theta *)
arc_theta_step(a) == fadd(a.theta, a.segment_theta)

(* lines 146-151 of cm_arc_callback(): the next segment *)
(* a segment target that leaves the axes outside the plane triple where   *)
(* the arc stands instead of at the commanded target                      *)
arc_segment_target_rotary_held(a, target_0, target_1, target_2) ==
  [axis \in AXES |->
     IF axis = a.plane_axis_2 THEN target_2
     ELSE IF axis = a.plane_axis_1 THEN target_1
     ELSE IF axis = a.plane_axis_0 THEN target_0
     ELSE a.position[axis]]

(* cm_arc_callback(): the three writes into arc.gm.target *)
arc_segment_target(a, target_0, target_1, target_2) ==
  [a.gm.target EXCEPT ![a.plane_axis_0] = target_0,
                      ![a.plane_axis_1] = target_1,
                      ![a.plane_axis_2] = target_2]

arc_next_segment(a) ==
  Bind(arc_theta_step(a), LAMBDA theta :
  Bind(fsin(theta), LAMBDA sin_theta :
  Bind(fcos(theta), LAMBDA cos_theta :
  Bind(fmul(a.radius, sin_theta), LAMBDA r_sin :
  Bind(fmul(a.radius, cos_theta), LAMBDA r_cos :
  Bind(fadd(a.center_0, r_sin), LAMBDA target_0 :
  Bind(fadd(a.center_1, r_cos), LAMBDA target_1 :
  Bind(fadd(a.gm.target[a.plane_axis_2], a.segment_linear_travel), LAMBDA target_2 :
  Bind(arc_segment_target(a, target_0, target_1, target_2), LAMBDA target :
    [a EXCEPT !.theta = theta, !.gm.target = target, !.position = target])))))))))

(* Faulty variants of the callback's tests, each a slip the code could    *)
(* have made: the run state read off the segment counter, the headroom    *)
(* forgotten, the headroom test inverted, the counter not decremented,    *)
(* the last segment not recognised.                                       *)
callback_noop_by_count(a) == a.segment_count = 0
callback_blocked_no_headroom(buffers_available) == buffers_available < 1
callback_blocked_inverted(buffers_available) == buffers_available >= PLANNER_BUFFER_HEADROOM
callback_decrement_missing(a) == a.segment_count
callback_more_segments_off_by_one(count) == count >= 0

(* line 143: no arc is running *)
callback_noop(a) == a.run_state = MOVE_STATE_OFF

(* line 144: the planner has too few free buffers *)
callback_blocked(buffers_available) == buffers_available < PLANNER_BUFFER_HEADROOM

(* line 153: --arc.segment_count, and whether segments remain *)
callback_decrement(a) == a.segment_count - 1
callback_more_segments(count) == count > 0

(* the status of mp_aline() handed on when it is an error *)
callback_status_of_planner(count, aline_status) ==
  IF aline_status # STAT_OK THEN aline_status
  ELSE IF callback_more_segments(count) THEN STAT_EAGAIN ELSE STAT_OK

(* lines 150-155: what the callback returns after a segment; the value of  *)
(* mp_aline() is dropped at line 150                                       *)
callback_status(count, aline_status) ==
  IF callback_more_segments(count) THEN STAT_EAGAIN ELSE STAT_OK

(* the planner handed the live model state with the segment's target *)
aline_argument_live(a) == [gm EXCEPT !.target = a.gm.target]

(* line 150: mp_aline(&arc.gm) *)
aline_argument(a) == a.gm

(* cm_arc_callback(): buffers_available is what                            *)
(* mp_get_planner_buffers_available() reports, aline_status what mp_aline() *)
(* returns                                                                 *)
cm_arc_callback(buffers_available, aline_status) ==
  /\ UNCHANGED <<gm, gmx, cycle_state, feeds, armed>>
  /\ IF callback_noop(arc)
     THEN /\ ret' = Returned("cm_arc_callback", STAT_NOOP)
          /\ UNCHANGED <<arc, aline>>
     ELSE IF callback_blocked(buffers_available)
     THEN /\ ret' = Returned("cm_arc_callback", STAT_EAGAIN)
          /\ UNCHANGED <<arc, aline>>
     ELSE \E a1 \in {arc_next_segment(arc)} : \E count \in {callback_decrement(arc)} :
              /\ aline' = [count |-> aline.count + 1, gm |-> aline_argument(a1),
                           status |-> aline_status]
              /\ IF callback_more_segments(count)
                 THEN /\ arc' = [a1 EXCEPT !.segment_count = count]
                      /\ ret' = Returned("cm_arc_callback",
                                         callback_status(count, aline_status))
                 ELSE /\ arc' = [a1 EXCEPT !.segment_count = count,
                                           !.run_state = MOVE_STATE_OFF]
                      /\ ret' = Returned("cm_arc_callback",
                                         callback_status(count, aline_status))

(* an abort that also clears the segment counter *)
cm_abort_arc_clearing ==
  /\ arc' = [arc EXCEPT !.run_state = MOVE_STATE_OFF, !.segment_count = 0]
  /\ ret' = Returned("cm_abort_arc", STAT_OK)
  /\ UNCHANGED <<gm, gmx, cycle_state, aline, feeds, armed>>

(* cm_abort_arc() *)
cm_abort_arc ==
  /\ arc' = [arc EXCEPT !.run_state = MOVE_STATE_OFF]
  /\ ret' = Returned("cm_abort_arc", STAT_OK)
  /\ UNCHANGED <<gm, gmx, cycle_state, aline, feeds, armed>>

(* ----------------------------------------------------------------------- *)
(* The arc commands of the G-code layer                                    *)
(* ----------------------------------------------------------------------- *)
Vector(x, y, z, a) ==
  [axis \in AXES |-> IF axis = AXIS_X THEN x ELSE IF axis = AXIS_Y THEN y
                     ELSE IF axis = AXIS_Z THEN z ELSE IF axis = AXIS_A THEN a ELSE 0]

Command(target, flags, i, j, k, radius, motion_mode) ==
  [target |-> target, flags |-> flags, i |-> i, j |-> j, k |-> k,
   radius |-> radius, motion_mode |-> motion_mode]

NoAxis == Vector(0, 0, 0, 0)
AxesXY == Vector(1, 1, 0, 0)
AxesXYZ == Vector(1, 1, 1, 0)
AxesXYZA == Vector(1, 1, 1, 1)

ArcCommands ==
  \* a bare F or M word: no offsets, no radius, no axis word
  { Command(NoAxis, NoAxis, 0, 0, 0, 0, MOTION_MODE_CW_ARC) }
  \cup
  \* a counterclockwise half circle about (50, 0, 0) that also moves the A
  \* axis; a full circle when started at its target
  { Command(Vector(100, 0, 0, 30), AxesXYZA, 50, 0, 0, 0, MOTION_MODE_CCW_ARC) }
  \cup
  \* a circle whose center is given in k: no center in the XY plane
  { Command(Vector(0, 0, 0, 0), AxesXYZ, 0, 0, 25, 0, MOTION_MODE_CCW_ARC) }
  \cup
  \* clockwise helixes about (50, 0): inside the travel of the helix axis,
  \* and beyond it; full circles when started at their target
  { Command(Vector(100, 0, z, 0), AxesXYZ, 50, 0, 0, 0, MOTION_MODE_CW_ARC) : z \in {25, 90} }
  \cup
  \* an end point beyond the travel of the X axis
  { Command(Vector(400, 0, 0, 0), AxesXY, 200, 0, 0, 0, MOTION_MODE_CW_ARC) }
  \cup
  \* radius mode: a radius of 8 mm for chords of 10 mm
  { Command(t, AxesXY, 0, 0, 0, 80, MOTION_MODE_CW_ARC) :
      t \in {Vector(0, 100, 0, 0), Vector(100, 0, 0, 0)} }
  \cup
  \* an arc shorter than cm.arc_segment_len
  { Command(Vector(10, 0, 0, 0), AxesXY, 5, 0, 0, 0, MOTION_MODE_CW_ARC) }

BuffersAvailable == 0 .. MaxBuffersAvailable
AlineStatus == {STAT_OK, STAT_MINIMUM_LENGTH_MOVE_ERROR}

ArcFeed ==
  /\ feeds < MaxArcFeeds
  /\ \E c \in ArcCommands :
       cm_arc_feed(c.target, c.flags, c.i, c.j, c.k, c.radius, c.motion_mode)

ArcCallback ==
  \E b \in BuffersAvailable, st \in AlineStatus : cm_arc_callback(b, st)

AbortArc == cm_abort_arc

(* While an arc is draining, the commands that follow it overwrite the     *)
(* shared machine state: another feed rate, motion mode and plane, another *)
(* target and position.                                                    *)
ModelChanges ==
  { [feed_rate |-> 0, motion_mode |-> MOTION_MODE_CANCEL,
     select_plane |-> CANON_PLANE_YZ, target |-> Vector(10, 20, 30, 0)] }

cm_model_change(c) ==
  /\ gm' = [gm EXCEPT !.feed_rate = c.feed_rate,
                      !.motion_mode = c.motion_mode,
                      !.select_plane = c.select_plane,
                      !.target = c.target]
  /\ gmx' = [gmx EXCEPT !.position = c.target]
  /\ UNCHANGED <<cycle_state, arc, ret, aline, feeds, armed>>

ModelChange ==
  /\ arc.run_state = MOVE_STATE_RUN
  /\ \E c \in ModelChanges : cm_model_change(c)

Next == ArcFeed \/ ArcCallback \/ AbortArc

Spec == Init /\ [][Next]_vars

(* the arc planner next to commands that overwrite the shared state *)
SharedNext == ArcFeed \/ ArcCallback \/ AbortArc \/ ModelChange

SharedSpec == Init /\ [][SharedNext]_vars


(***************************************************************************)
(* Properties of cm_arc_callback()                                         *)
(***************************************************************************)
Running == arc.run_state = MOVE_STATE_RUN
Idle == arc.run_state = MOVE_STATE_OFF
Emitted == aline'.count = aline.count + 1

(* C1: a call of cm_arc_callback() while the arc is running and the        *)
(* planner has fewer than PLANNER_BUFFER_HEADROOM free buffers returns     *)
(* STAT_EAGAIN, submits no segment and leaves every field of the arc, and  *)
(* the rest of the machine state, unchanged.                               *)
C1_BackpressureRetry ==
  [][\A b \in BuffersAvailable, st \in AlineStatus :
       (Running /\ b < PLANNER_BUFFER_HEADROOM /\ cm_arc_callback(b, st))
         => /\ ret' = Returned("cm_arc_callback", STAT_EAGAIN)
            /\ UNCHANGED <<arc, aline, gm, gmx, cycle_state>>]_vars

(* a freshly armed arc whose first callback was held back by the planner *)
C1_Witness ==
  /\ Running
  /\ ret = Returned("cm_arc_callback", STAT_EAGAIN)
  /\ aline.count = 0
  /\ arc.segment_count = arc.segments

(* C2: a call of cm_arc_callback() while no arc is running returns         *)
(* STAT_NOOP whatever the planner's free buffers are, and changes nothing, *)
(* so any number of consecutive calls leave the state as it was.           *)
C2_IdleNoOp ==
  [][\A b \in BuffersAvailable, st \in AlineStatus :
       (Idle /\ cm_arc_callback(b, st))
         => /\ ret' = Returned("cm_arc_callback", STAT_NOOP)
            /\ UNCHANGED <<arc, aline, gm, gmx, cycle_state>>]_vars

(* the callback has run on an arc that was aborted with segments left *)
C2_Witness ==
  /\ Idle
  /\ ret = Returned("cm_arc_callback", STAT_NOOP)
  /\ arc.segment_count > 0

C4_DoneAtZero ==
  [][(Emitted /\ ArcCallback)
       => IF arc'.segment_count = 0
          THEN ret'.status = STAT_OK /\ arc'.run_state = MOVE_STATE_OFF
          ELSE ret'.status = STAT_EAGAIN /\ arc'.run_state = MOVE_STATE_RUN]_vars

(* the last segment of an arc of several segments has been submitted *)
C4_Witness ==
  /\ Idle
  /\ ret = Returned("cm_arc_callback", STAT_OK)
  /\ arc.segment_count = 0
  /\ aline.count = arc.segments
  /\ arc.segments > 1


(***************************************************************************)
(* Completion of an arc.  The main loop calls cm_arc_callback() over and   *)
(* over, and the planner drains its queue, so a call that finds the        *)
(* headroom it needs is never put off for ever.                            *)
(***************************************************************************)
CallbackWithHeadroom ==
  \E b \in PLANNER_BUFFER_HEADROOM .. MaxBuffersAvailable, st \in AlineStatus :
    cm_arc_callback(b, st)

LiveSpec == Init /\ [][Next]_vars /\ WF_vars(CallbackWithHeadroom)

(* cm_arc_feed() has just armed an arc: nothing of it has been submitted *)
Armed ==
  /\ Running
  /\ ret = Returned("cm_arc_feed", STAT_OK)
  /\ aline.count = 0
  /\ arc.segment_count = arc.segments
  /\ armed.feeds = feeds

(* the last segment has just been submitted *)
Completed ==
  /\ Idle
  /\ ret = Returned("cm_arc_callback", STAT_OK)
  /\ aline.count = arc.segments
  /\ arc.segment_count = 0

(* the arc was aborted, or cm_arc_feed() was called again without arming   *)
(* a new arc (when it arms one, that arc is under the same obligation)     *)
Intervened ==
  \/ ret.op = "cm_abort_arc"
  \/ ret.op = "cm_arc_feed" /\ ~Armed

(* C5: once cm_arc_feed() has armed an arc of N segments, repeated calls   *)
(* of cm_arc_callback() that find headroom lead to the arc being idle with *)
(* STAT_OK returned after exactly N segments were submitted, unless        *)
(* cm_abort_arc() or another cm_arc_feed() comes in between.               *)
C5_ArcCompletes == Armed ~> (Completed \/ Intervened)

(* an arc of several segments has run to its end undisturbed *)
C5_Witness ==
  /\ Completed
  /\ arc.segments >= 2
  /\ cycle_state = CYCLE_MACHINING

(***************************************************************************)
(* Properties of cm_arc_feed()                                             *)
(***************************************************************************)
FeedFailed == ret.op = "cm_arc_feed" /\ ret.status # STAT_OK

(* C6: whenever cm_arc_feed() has returned an error, whatever state it was *)
(* called in, no arc is running.                                           *)
C6_ErrorLeavesIdle == FeedFailed => Idle

(* C7: when cm_arc_feed() has armed an arc, the end point it was given     *)
(* lies within the travel limits on every axis, the axis normal to the     *)
(* plane included.                                                         *)
C7_ArmedTargetWithinLimits == Armed => cm_test_soft_limits(gm.target) = STAT_OK

(* C8: a call of cm_arc_feed() that returns STAT_SOFT_LIMIT_EXCEEDED       *)
(* leaves the model's target and motion mode, the position and the arc as  *)
(* they were before the call.                                              *)
C8_SoftLimitAtomic ==
  [][\A c \in ArcCommands :
       (/\ cm_arc_feed(c.target, c.flags, c.i, c.j, c.k, c.radius, c.motion_mode)
        /\ ret'.status = STAT_SOFT_LIMIT_EXCEEDED)
         => UNCHANGED <<gm, gmx, arc>>]_vars

(* C9: with a zero feed rate and inverse feed rate mode off, every call of *)
(* cm_arc_feed(), one without offsets, radius or axis words included,      *)
(* returns STAT_GCODE_FEEDRATE_ERROR and changes nothing.                  *)
C9_FeedRateFirst ==
  [][\A c \in ArcCommands :
       (/\ gm.feed_rate = 0
        /\ ~gm.inverse_feed_rate_mode
        /\ cm_arc_feed(c.target, c.flags, c.i, c.j, c.k, c.radius, c.motion_mode))
         => /\ ret' = Returned("cm_arc_feed", STAT_GCODE_FEEDRATE_ERROR)
            /\ UNCHANGED <<gm, gmx, cycle_state, arc, aline>>]_vars

(* the feed rate trap has fired on the machine as it was set up *)
C9_Witness ==
  /\ ret = Returned("cm_arc_feed", STAT_GCODE_FEEDRATE_ERROR)
  /\ gm.feed_rate = 0
  /\ ~gm.inverse_feed_rate_mode
  /\ Idle
  /\ cycle_state = CYCLE_OFF

(* C10: when the feed rate test passes, a call of cm_arc_feed() with i, j, *)
(* k and radius all zero and no axis word returns STAT_OK, changes         *)
(* nothing and starts no cycle.                                            *)
C10_NoMovementNoOp ==
  [][\A c \in ArcCommands :
       (/\ (gm.feed_rate # 0 \/ gm.inverse_feed_rate_mode)
        /\ c.i = 0 /\ c.j = 0 /\ c.k = 0 /\ c.radius = 0
        /\ \A axis \in AXES : c.flags[axis] = 0
        /\ cm_arc_feed(c.target, c.flags, c.i, c.j, c.k, c.radius, c.motion_mode))
         => /\ ret' = Returned("cm_arc_feed", STAT_OK)
            /\ UNCHANGED <<gm, gmx, cycle_state, arc, aline>>]_vars

(* the bare command has been accepted on an idle machine *)
C10_Witness ==
  /\ ret = Returned("cm_arc_feed", STAT_OK)
  /\ Idle
  /\ cycle_state = CYCLE_OFF
  /\ feeds = 1

(***************************************************************************)
(* Properties of cm_abort_arc()                                            *)
(***************************************************************************)
(* C11: cm_abort_arc() sets run_state to MOVE_STATE_OFF from any state and *)
(* changes nothing else: position, theta and segment_count keep their      *)
(* values.  A cm_arc_callback() that comes right after it returns          *)
(* STAT_NOOP and submits nothing; no segment is submitted while the arc is *)
(* off, and only a cm_arc_feed() that returns STAT_OK sets it running      *)
(* again.                                                                  *)
C11_AbortOnlyStops ==
  [][/\ AbortArc =>
          /\ arc'.run_state = MOVE_STATE_OFF
          /\ \A f \in (DOMAIN arc) \ {"run_state"} : arc'[f] = arc[f]
          /\ UNCHANGED <<gm, gmx, cycle_state, aline>>
     /\ (ret.op = "cm_abort_arc" /\ ArcCallback) =>
          /\ ret' = Returned("cm_arc_callback", STAT_NOOP)
          /\ UNCHANGED <<arc, aline>>
     /\ Emitted => Running
     /\ (Idle /\ arc'.run_state = MOVE_STATE_RUN) =>
          ret' = Returned("cm_arc_feed", STAT_OK)]_vars

(* an arc has been aborted between two of its segments *)
C11_Witness ==
  /\ ret.op = "cm_abort_arc"
  /\ Idle
  /\ aline.count >= 1
  /\ arc.segment_count >= 1
  /\ arc.position = aline.gm.target

(***************************************************************************)
(* The segments of one arc.  An arc is undisturbed while it runs and       *)
(* cm_arc_feed() has not been called again since the call that armed it.   *)
(***************************************************************************)
Undisturbed == Running /\ armed.feeds = feeds

(* C12 as the specification states it: every segment of an arc, clockwise  *)
(* or counterclockwise, has a theta strictly greater than the one before.  *)
C12_ThetaIncreasing ==
  [][(Undisturbed /\ Emitted) => arc'.theta > arc.theta]_vars

(* C12: every call of cm_arc_callback() that changes an undisturbed arc    *)
(* submits exactly one segment, and the segments come in strict angular    *)
(* order along the direction of the arc: theta of each segment is strictly *)
(* greater than that of the one before for a clockwise arc, and strictly   *)
(* smaller for a counterclockwise arc.                                     *)
C12_ThetaMonotonic ==
  [][(Undisturbed /\ ArcCallback /\ arc' # arc)
       => /\ Emitted
          /\ IF arc.gm.motion_mode = MOTION_MODE_CCW_ARC
             THEN arc'.theta < arc.theta
             ELSE arc'.theta > arc.theta]_vars

(* a counterclockwise arc has submitted two segments or more, and its      *)
(* theta has gone down from where it started                               *)
C12_Witness ==
  /\ armed.feeds = feeds
  /\ ret.op = "cm_arc_callback"
  /\ aline.count >= 2
  /\ arc.gm.motion_mode = MOTION_MODE_CCW_ARC
  /\ arc.theta < armed.arc.theta

(* the arc after n more segments: lines 146-151, n times over *)
RECURSIVE arc_after_segments(_, _)
arc_after_segments(a, n) ==
  IF n = 0 THEN a ELSE arc_next_segment(arc_after_segments(a, n - 1))

(* C13: what an undisturbed arc submits depends only on the arc as it was  *)
(* armed.  Whatever the commands that follow do to the shared machine      *)
(* state (feed rate, motion mode, plane, target, position), the n-th       *)
(* segment handed to mp_aline() is the one the armed arc yields after n    *)
(* steps, motion context included, and the call returns STAT_OK with the   *)
(* last of the armed arc's segments and STAT_EAGAIN before.  Two runs that *)
(* arm the same arc therefore submit the same segments with the same       *)
(* results.                                                                *)
C13_SegmentsFromArmedArc ==
  [][(Undisturbed /\ Emitted /\ ArcCallback)
       => /\ aline'.gm = arc_after_segments(armed.arc, aline'.count).gm
          /\ ret'.status = IF aline'.count = armed.arc.segments
                           THEN STAT_OK ELSE STAT_EAGAIN]_vars

(* a segment was submitted after the shared state had been overwritten *)
C13_Witness ==
  /\ armed.feeds = feeds
  /\ ret.op = "cm_arc_callback"
  /\ aline.count >= 1
  /\ gm.feed_rate # aline.gm.feed_rate
  /\ gm.motion_mode # aline.gm.motion_mode
  /\ gmx.position # armed.arc.gm.target
  /\ aline.gm.feed_rate = armed.arc.gm.feed_rate

(***************************************************************************)
(* Properties of _compute_arc()                                            *)
(***************************************************************************)
(* the arc just armed ends, in its plane, where it starts, about a center  *)
(* that is not its starting point                                          *)
FullCircle ==
  /\ arc.gm.target[arc.plane_axis_0] = arc.position[arc.plane_axis_0]
  /\ arc.gm.target[arc.plane_axis_1] = arc.position[arc.plane_axis_1]
  /\ \/ arc.offset[arc.plane_axis_0] # 0
     \/ arc.offset[arc.plane_axis_1] # 0

(* C14: when cm_arc_feed() has armed a full circle, angular_travel is      *)
(* exactly 2 pi for a clockwise and exactly -2 pi for a counterclockwise   *)
(* arc, and the arc has one segment at least.                              *)
C14_FullCircleTravel ==
  (Armed /\ FullCircle)
    => /\ arc.angular_travel = IF arc.gm.motion_mode = MOTION_MODE_CCW_ARC
                               THEN 0 - TWO_PI ELSE TWO_PI
       /\ arc.segments >= 1

(* a counterclockwise full circle has been armed *)
C14_Witness ==
  /\ Armed
  /\ FullCircle
  /\ arc.gm.motion_mode = MOTION_MODE_CCW_ARC
  /\ arc.angular_travel = 0 - TWO_PI

(* a clockwise full circle has been armed *)
C14_WitnessClockwise ==
  /\ Armed
  /\ FullCircle
  /\ arc.gm.motion_mode = MOTION_MODE_CW_ARC
  /\ arc.angular_travel = TWO_PI

(***************************************************************************)
(* Radius mode.  The chord is the vector from the position cm_arc_feed()   *)
(* is called at to the target it sets, in the axes of the selected plane.  *)
(***************************************************************************)
RadiusCommands == {c \in ArcCommands : c.radius # 0}
chord_0 == gm'.target[arc'.plane_axis_0] - gmx.position[arc'.plane_axis_0]
chord_1 == gm'.target[arc'.plane_axis_1] - gmx.position[arc'.plane_axis_1]

(* C15: a call of cm_arc_feed() with a radius r and a chord (x, y) that is *)
(* not zero returns STAT_FLOATING_POINT_ERROR exactly when                 *)
(* 4 r^2 - x^2 - y^2 < 0, r being the radius the call was given.           *)
C15_RadiusTooSmallExactly ==
  [][\A c \in RadiusCommands :
       (/\ (gm.feed_rate # 0 \/ gm.inverse_feed_rate_mode)
        /\ cm_arc_feed(c.target, c.flags, c.i, c.j, c.k, c.radius, c.motion_mode)
        /\ (chord_0 # 0 \/ chord_1 # 0))
         => (ret'.status = STAT_FLOATING_POINT_ERROR
               <=> 4 * square(to_millimeters(gm', c.radius))
                     - square(chord_0) - square(chord_1) < 0)]_vars

(***************************************************************************)
(* The minimum length of an arc                                            *)
(***************************************************************************)
(* the call of cm_arc_feed() just made has armed an arc *)
ArmedByCall == armed'.feeds = feeds'

(* the call of cm_arc_feed() just made got as far as the length of the arc *)
LengthComputed ==
  \/ ret'.status \in {STAT_MINIMUM_LENGTH_MOVE_ERROR, STAT_SOFT_LIMIT_EXCEEDED}
  \/ ArmedByCall

(* C16: a call of cm_arc_feed() that computes the length of the arc        *)
(* returns STAT_MINIMUM_LENGTH_MOVE_ERROR exactly when that length is less *)
(* than cm.arc_segment_len, and then it takes none of the arming steps:    *)
(* run_state, cycle state and position stay as they were.  An arc that the *)
(* call arms is not shorter than cm.arc_segment_len and has one segment at *)
(* least.                                                                  *)
C16_MinimumLength ==
  [][ArcFeed
       => /\ LengthComputed =>
               (ret'.status = STAT_MINIMUM_LENGTH_MOVE_ERROR
                  <=> arc'.length < cm_arc_segment_len)
          /\ ret'.status = STAT_MINIMUM_LENGTH_MOVE_ERROR =>
               /\ arc'.run_state = arc.run_state
               /\ UNCHANGED <<cycle_state, gmx, aline, armed>>
          /\ ArmedByCall =>
               /\ arc'.run_state = MOVE_STATE_RUN
               /\ arc'.length >= cm_arc_segment_len
               /\ arc'.segments >= 1]_vars

(* an arc shorter than cm.arc_segment_len has been turned down *)
C16_Witness ==
  /\ ret = Returned("cm_arc_feed", STAT_MINIMUM_LENGTH_MOVE_ERROR)
  /\ arc.length > 0
  /\ arc.length < cm_arc_segment_len
  /\ Idle
  /\ cycle_state = CYCLE_OFF

(***************************************************************************)
(* The whole travel of an arc                                              *)
(***************************************************************************)
(* an arc has run from arming to its last segment with no other call of    *)
(* cm_arc_feed() and no abort                                              *)
CompletedUndisturbed == Completed /\ armed.feeds = feeds

(* where the armed arc is to end: its start angle plus its angular travel, *)
(* and on the helix axis its start plus its linear travel                  *)
theta_at_end == armed.arc.theta + armed.arc.angular_travel
helix_at_end == armed.arc.position[arc.plane_axis_2] + armed.arc.linear_travel

C17_WitnessRounded ==
  /\ CompletedUndisturbed
  /\ arc.theta # theta_at_end
  /\ aline.gm.target[arc.plane_axis_2] # helix_at_end

(* the center the call has computed, as offsets from the position, and its *)
(* distance from the position and from the target                          *)
arc_center_0 == arc'.offset[arc'.plane_axis_0]
arc_center_1 == arc'.offset[arc'.plane_axis_1]
center_to_position == hypot(arc_center_0, arc_center_1)
center_to_target == hypot(chord_0 - arc_center_0, chord_1 - arc_center_1)

(* C18: when cm_arc_feed() is called with a radius r that is at least half *)
(* the chord and computes a center from it, the center lies as far from    *)
(* the position as from the target, and that distance is the magnitude of  *)
(* r (distances compared to within one unit of resolution).                *)
C18_CenterAtRadius ==
  [][\A c \in RadiusCommands :
       (/\ (gm.feed_rate # 0 \/ gm.inverse_feed_rate_mode)
        /\ cm_arc_feed(c.target, c.flags, c.i, c.j, c.k, c.radius, c.motion_mode)
        /\ (chord_0 # 0 \/ chord_1 # 0)
        /\ 4 * square(to_millimeters(gm', c.radius))
              >= square(chord_0) + square(chord_1)
        /\ ret'.status # STAT_FLOATING_POINT_ERROR)
         => /\ fabs(center_to_position - center_to_target) <= 1
            /\ fabs(center_to_position - fabs(to_millimeters(gm', c.radius))) <= 1]_vars

(***************************************************************************)
(* The results of cm_arc_callback()                                        *)
(***************************************************************************)
(* C19: cm_arc_callback() returns STAT_NOOP, STAT_EAGAIN or STAT_OK and    *)
(* nothing else.  It returns STAT_NOOP exactly when no arc is running, and *)
(* a call on a running arc that submits nothing is never one that found    *)
(* PLANNER_BUFFER_HEADROOM free buffers.  Whatever mp_aline() returns for  *)
(* a segment, the position becomes the target submitted, segment_count     *)
(* goes down by one and the result is STAT_EAGAIN while segments remain,   *)
(* STAT_OK after the last.                                                 *)
C19_CallbackNeverFails ==
  [][ret'.op = "cm_arc_callback" =>
       /\ ret'.status \in {STAT_NOOP, STAT_EAGAIN, STAT_OK}
       /\ Idle <=> ret'.status = STAT_NOOP
       /\ Emitted =>
            /\ arc'.position = aline'.gm.target
            /\ arc'.segment_count = arc.segment_count - 1
            /\ ret'.status = IF arc'.segment_count > 0 THEN STAT_EAGAIN ELSE STAT_OK
       /\ ~Emitted => UNCHANGED arc
       /\ (Running /\ ~Emitted) => ~CallbackWithHeadroom]_vars

(* an arc has ended with STAT_OK although the planner turned down its last *)
(* segment                                                                 *)
C19_Witness ==
  /\ ret = Returned("cm_arc_callback", STAT_OK)
  /\ aline.status = STAT_MINIMUM_LENGTH_MOVE_ERROR
  /\ aline.count >= 1
  /\ arc.position = aline.gm.target
  /\ Idle

(***************************************************************************)
(* The segment counter                                                     *)
(***************************************************************************)
(* C20: whenever an arc is running, after any sequence of calls of         *)
(* cm_arc_feed() (failing ones and ones made on a running arc included),   *)
(* cm_arc_callback() and cm_abort_arc(), segments is 1 or more and         *)
(* segment_count lies between 1 and segments.                              *)
C20_SegmentCountInRange ==
  Running => /\ arc.segments >= 1
             /\ 1 <= arc.segment_count
             /\ arc.segment_count <= arc.segments

(* an arc is still running, part of it submitted, after a call of          *)
(* cm_arc_feed() on it has failed                                          *)
C20_Witness ==
  /\ Running
  /\ FeedFailed
  /\ aline.count >= 1
  /\ arc.segment_count < arc.segments

(***************************************************************************)
(* The sign of the angular travel.  In an arc just armed arc.position is   *)
(* the starting point and the plane axes of arc.gm.target hold the end     *)
(* point, so the angle of the end point can be taken again as line 199     *)
(* takes it.                                                               *)
(***************************************************************************)
armed_theta_end ==
  get_theta(
    fsub(fsub(arc.gm.target[arc.plane_axis_0], arc.offset[arc.plane_axis_0]),
         arc.position[arc.plane_axis_0]),
    fsub(fsub(arc.gm.target[arc.plane_axis_1], arc.offset[arc.plane_axis_1]),
         arc.position[arc.plane_axis_1]))

(* the difference of the two angles brought into 0 .. 2 pi *)
armed_clockwise_travel ==
  IF armed_theta_end < arc.theta
  THEN armed_theta_end - arc.theta + TWO_PI
  ELSE armed_theta_end - arc.theta

(* C21: in an arc that a call of cm_arc_feed() has armed angular_travel is  *)
(* not zero;                                                               *)
(* it is above 0 and at most 2 pi for a clockwise arc, below 0 and at      *)
(* least -2 pi for a counterclockwise one.  Unless the two angles are the  *)
(* same (a full circle), it is their difference brought into 0 .. 2 pi,    *)
(* less 2 pi when the motion mode is counterclockwise.                     *)
C21_AngularTravelSign ==
  Armed
    => /\ arc.angular_travel # 0
       /\ arc.gm.motion_mode = MOTION_MODE_CW_ARC =>
            (0 < arc.angular_travel /\ arc.angular_travel <= TWO_PI)
       /\ arc.gm.motion_mode = MOTION_MODE_CCW_ARC =>
            (0 - TWO_PI <= arc.angular_travel /\ arc.angular_travel < 0)
       /\ arc.gm.motion_mode \in {MOTION_MODE_CW_ARC, MOTION_MODE_CCW_ARC}
       /\ armed_clockwise_travel # 0 =>
            /\ 0 < armed_clockwise_travel
            /\ armed_clockwise_travel < TWO_PI
            /\ arc.angular_travel =
                 IF arc.gm.motion_mode = MOTION_MODE_CCW_ARC
                 THEN armed_clockwise_travel - TWO_PI
                 ELSE armed_clockwise_travel

(* a counterclockwise arc that is neither a full nor a half circle has     *)
(* been armed                                                              *)
C21_Witness ==
  /\ Armed
  /\ arc.gm.motion_mode = MOTION_MODE_CCW_ARC
  /\ armed_clockwise_travel # 0
  /\ arc.angular_travel # 0 - M_PI
  /\ arc.angular_travel < 0

(***************************************************************************)
(* The plane axes                                                          *)
(***************************************************************************)
(* the axes of an arc, and the axes that go with a plane selection *)
plane_axes_of(a) == <<a.plane_axis_0, a.plane_axis_1, a.plane_axis_2>>
plane_axes_for(select_plane) ==
  IF select_plane = CANON_PLANE_XY THEN <<AXIS_X, AXIS_Y, AXIS_Z>>
  ELSE IF select_plane = CANON_PLANE_XZ THEN <<AXIS_X, AXIS_Z, AXIS_Y>>
  ELSE <<AXIS_Y, AXIS_Z, AXIS_X>>

(* C22: whenever an arc is running its three plane axes differ from one    *)
(* another and are those of the plane selection that cm_arc_feed() found   *)
(* and copied into the arc (G17: X, Y, Z; G18: X, Z, Y; G19: Y, Z, X),     *)
(* whatever the selection has become since.  A call of cm_arc_feed() that  *)
(* arms an arc sets them from the selection it is called with, and no step *)
(* other than a call of cm_arc_feed() changes them.                        *)
C22_PlaneAxes ==
  [][/\ arc'.run_state = MOVE_STATE_RUN =>
          /\ arc'.plane_axis_0 # arc'.plane_axis_1
          /\ arc'.plane_axis_0 # arc'.plane_axis_2
          /\ arc'.plane_axis_1 # arc'.plane_axis_2
          /\ plane_axes_of(arc') = plane_axes_for(arc'.gm.select_plane)
     /\ (feeds' # feeds /\ ArmedByCall) =>
          plane_axes_of(arc') = plane_axes_for(gm.select_plane)
     /\ feeds' = feeds => plane_axes_of(arc') = plane_axes_of(arc)]_vars

(* an arc in the XZ plane goes on after the selection has changed to YZ *)
C22_Witness ==
  /\ Running
  /\ aline.count >= 1
  /\ ret.op = "cm_arc_callback"
  /\ plane_axes_of(arc) = <<AXIS_X, AXIS_Z, AXIS_Y>>
  /\ gm.select_plane = CANON_PLANE_YZ

(* The axes outside the plane triple of an arc: the rotary axes. *)
other_axes_of(a) == AXES \ {a.plane_axis_0, a.plane_axis_1, a.plane_axis_2}

(* C23: cm_arc_callback() writes the three plane-axis components of the    *)
(* captured target and nothing else of it.  A call that arms an arc        *)
(* captures the commanded target on every axis outside the plane triple;   *)
(* every segment emitted, the first included, leaves those components of   *)
(* arc.gm.target as they were; and every segment of an undisturbed arc is  *)
(* submitted with the value captured at arming on each of them, so the     *)
(* whole travel of such an axis goes out with the first segment.           *)
C23_OtherAxesInFull ==
  [][/\ (feeds' # feeds /\ ArmedByCall) =>
          \A axis \in other_axes_of(arc') :
             /\ arc'.gm.target[axis] = gm'.target[axis]
             /\ armed'.arc.gm.target[axis] = gm'.target[axis]
     /\ Emitted =>
          /\ plane_axes_of(arc') = plane_axes_of(arc)
          /\ \A axis \in other_axes_of(arc) :
                arc'.gm.target[axis] = arc.gm.target[axis]
     /\ (Undisturbed /\ Emitted) =>
          \A axis \in other_axes_of(arc) :
             aline'.gm.target[axis] = armed.arc.gm.target[axis]]_vars

(* The first segment of an undisturbed arc commanded with a move of axis   *)
(* A has been submitted, more segments are to come, and its target on A    *)
(* is the commanded 30 while the arc started at 0 on A.                    *)
C23_Witness ==
  /\ Undisturbed
  /\ ret.op = "cm_arc_callback"
  /\ aline.count = 1
  /\ arc.segment_count >= 1
  /\ AXIS_A \in other_axes_of(arc)
  /\ armed.arc.position[AXIS_A] = 0
  /\ armed.arc.gm.target[AXIS_A] = 30
  /\ aline.gm.target[AXIS_A] = 30

====
